---- MODULE Spec2Model ----
(***************************************************************************)
(* Model of the yt-video-note pipeline (src/src/main.py): one interactive  *)
(* run resolves the video metadata, then walks the checkpointed stages     *)
(* download -> transcribe -> summarize -> select times + screenshots ->    *)
(* enhance, each guarded by an os.path.exists test on its artifact.        *)
(* A run is cut at the points where main() waits for an external           *)
(* operation: <stage>Begin evaluates the existence test and either loads   *)
(* the artifact or starts the call, <stage>OK / <stage>Fail is the return  *)
(* of the call followed by everything main() does up to the next call.     *)
(***************************************************************************)
EXTENDS Integers, Sequences, FiniteSets, TLC

\* ---------------------------------------------------------------- bounds
MaxRuns == 3      \* pipeline runs started one after the other
MaxGen == 2       \* distinct contents an external producer may return
MaxShots == 2     \* longest timestamp list select_times returns

Ids == {"A", "B"}                 \* video ids extract_info can resolve to
Gen == 1 .. MaxGen                \* contents of generated artifacts
NoContent == 0                    \* "" in memory, missing file on disk

\* ---------------------------------------------------------------- texts
\* A str with "\r\n" line ends: the text g in that form is CrLf(g).
CrLf(g) == 0 - g
Texts == Gen \cup {CrLf(g) : g \in Gen}

\* open(path, 'w', encoding='utf-8').write(s) where os.linesep is "\n":
\* the characters are stored as they are.
WriteText(s) == s

\* open(path, 'r', encoding='utf-8').read(): universal newlines, every
\* "\r\n" comes back as "\n".
ReadText(bytes) == IF bytes < 0 THEN 0 - bytes ELSE bytes

\* ---------------------------------------------------------------- floats
\* A Python float timestamp: sign bit and magnitude in tenths of a second.
Float(neg, mag) == [neg |-> neg, mag |-> mag]
Times == {Float(FALSE, 0), Float(TRUE, 0), Float(FALSE, 15)}

\* float.__eq__ / __hash__: 0.0 and -0.0 are the same dict key.
FloatEq(a, b) == a.mag = b.mag /\ (a.neg = b.neg \/ a.mag = 0)

\* f"{time}": repr of the float ("0.0", "-0.0", "1.5").
FloatStr(f) ==
    (IF f.neg THEN "-" ELSE "") \o ToString(f.mag \div 10) \o "."
        \o ToString(f.mag % 10)

\* select_times returns a list[float]: any order, duplicates allowed.
RECURSIVE SeqsUpTo(_)
SeqsUpTo(n) ==
    IF n = 0 THEN {<<>>}
    ELSE LET shorter == SeqsUpTo(n - 1)
         IN  shorter \cup {Append(s, t) : s \in {x \in shorter : Len(x) = n - 1},
                                           t \in Times}
HighlightSeqs == SeqsUpTo(MaxShots)

\* ---------------------------------------------------------------- files
\* f"{time}.jpg" as pathlib sees it: stem and suffix.
JpgName(time) == [stem |-> FloatStr(time), suffix |-> ".jpg"]

\* ffmpeg frame grab: the bytes are a function of the media and the offset.
Frame(video, time) == [video |-> video, at |-> FloatStr(time)]

EmptyShots == [n \in {} |-> 0]

\* ./results/{id}/ before anything was written.
NoWorkspace ==
    [dir |-> FALSE, video |-> NoContent, transcription |-> NoContent,
     raw |-> NoContent, summary |-> NoContent,
     shotsDir |-> FALSE, shots |-> EmptyShots]

\* ---------------------------------------------------------------- images
\* An entry of the `images` dict: the key's Python type, the text f"{key}"
\* renders in enhance_summarize, and the image bytes.
Entry(kind, text, data) == [kind |-> kind, text |-> text, data |-> data]

\* images[time] = image_binary with a float key: an equal key already in
\* the dict keeps its place and gets the new value.
DictSet(d, time, data) ==
    LET same == {e \in d : e.kind = "float" /\
                    \E u \in Times : FloatStr(u) = e.text /\ FloatEq(u, time)}
    IN  IF same = {}
        THEN d \cup {Entry("float", FloatStr(time), data)}
        ELSE (d \ same) \cup {Entry(e.kind, e.text, data) : e \in same}

\* The loop over folder.iterdir(): every regular *.jpg file, keyed by stem.
LoadImages(shots) ==
    {Entry("str", n.stem, shots[n]) : n \in {m \in DOMAIN shots : m.suffix = ".jpg"}}

\* ------------------------------------------------------- VideoScreenshot
MaxCoord == 2     \* largest pixel coordinate of a crop corner
FrameSide == 1    \* width and height of the media's frames

Coord == 0 .. MaxCoord
Position(x, y) == [x |-> x, y |-> y]
Region(top_left, bottom_right) ==
    [top_left |-> top_left, bottom_right |-> bottom_right]
Regions == {Region(Position(a, b), Position(c, d)) :
                a \in Coord, b \in Coord, c \in Coord, d \in Coord}
NoRegion == Region(Position(0, 0), Position(0, 0))

ShotOps == {"get_image", "get_cropped_image", "get_multi_image",
            "get_multi_cropped_image"}
CroppedOps == {"get_cropped_image", "get_multi_cropped_image"}
MultiOps == {"get_multi_image", "get_multi_cropped_image"}

\* video_screenshot.py 101, 164
ValidRegion(r) ==
    r.top_left.x < r.bottom_right.x /\ r.top_left.y < r.bottom_right.y

\* crop={width}:{height}:{x}:{y} applied to the frame at the offset.
CroppedFrame(video, time, r) ==
    [video |-> video, at |-> FloatStr(time),
     crop |-> <<r.bottom_right.x - r.top_left.x,
                r.bottom_right.y - r.top_left.y, r.top_left.x, r.top_left.y>>]

\* What ffmpeg writes to stdout for one timestamp of the call.
ShotFrame(op, video, time, r) ==
    IF op \in CroppedOps THEN CroppedFrame(video, time, r)
    ELSE Frame(video, time)

Raising(type, msg) == [type |-> type, msg |-> msg]

\* What ffmpeg wrote to stderr: bytes that are valid UTF-8 or not.
Stderr == [utf8 : BOOLEAN, bytes : Gen]
NoStderr == [utf8 |-> TRUE, bytes |-> NoContent]

\* The exception the RuntimeError of _run_ffmpeg_command was made from
\* (the {e} of its message) and the diagnostic text that exception holds.
Cause(type, text) == [type |-> type, text |-> text]
NoCause == Cause("", NoContent)

\* video_screenshot.py 52-60: on a non-zero exit stderr.decode('utf-8') is
\* evaluated for the message of a RuntimeError; that error, or the
\* UnicodeDecodeError of the decoding, is caught by `except Exception` and
\* wrapped in the RuntimeError that leaves the call.
FfmpegError(stderr) ==
    IF stderr.utf8
    THEN Cause("RuntimeError", stderr.bytes)
    ELSE Cause("UnicodeDecodeError", NoContent)
Passed == Raising("", "")

\* Checks that raise before anything is extracted, ignoring the frame size
\* (a plausible extra check, not in the code).
PrecheckBounded(op, video, r, timestamps) ==
    IF video = NoContent
    THEN Raising("FileExistsError", "not found")
    ELSE IF op \in MultiOps /\ timestamps = <<>>
    THEN Raising("ValueError", "empty")
    ELSE IF op \in CroppedOps /\ ~ValidRegion(r)
    THEN Raising("ValueError", "crop")
    ELSE IF op \in CroppedOps /\
            (r.bottom_right.x > FrameSide \/ r.bottom_right.y > FrameSide)
    THEN Raising("ValueError", "crop")
    ELSE Passed

\* The batch calls without their test for an empty list.
PrecheckNoEmpty(op, video, r, timestamps) ==
    IF video = NoContent
    THEN Raising("FileExistsError", "not found")
    ELSE IF op \in CroppedOps /\ ~ValidRegion(r)
    THEN Raising("ValueError", "crop")
    ELSE Passed

\* The argument checks placed ahead of the test for the file.
PrecheckArgsFirst(op, video, r, timestamps) ==
    IF op \in MultiOps /\ timestamps = <<>>
    THEN Raising("ValueError", "empty")
    ELSE IF op \in CroppedOps /\ ~ValidRegion(r)
    THEN Raising("ValueError", "crop")
    ELSE IF video = NoContent
    THEN Raising("FileExistsError", "not found")
    ELSE Passed

\* video_screenshot.py 72-73, 98-102, 128-133, 156-165: the checks of the
\* four operations, in the order the code makes them.
Precheck(op, video, r, timestamps) ==
    IF video = NoContent
    THEN Raising("FileExistsError", "not found")
    ELSE IF op \in MultiOps /\ timestamps = <<>>
    THEN Raising("ValueError", "empty")
    ELSE IF op \in CroppedOps /\ ~ValidRegion(r)
    THEN Raising("ValueError", "crop")
    ELSE Passed

\* No VideoScreenshot call made yet.
NoShot ==
    [op |-> "none", video |-> NoContent, region |-> NoRegion,
     timestamps |-> <<>>, results |-> <<>>, pos |-> 0, spawned |-> 0,
     out |-> "none", msg |-> "", ret |-> <<>>, returncode |-> -1,
     stderr |-> NoStderr, cause |-> NoCause]

\* ------------------------------------------------------------ Transcriber
MaxTasks == 2     \* coroutines calling one Transcriber instance

Tasks == 1 .. MaxTasks
NoExit == -1      \* ffmpeg was not run

\* A coroutine that has not called transcribe_with_timestamps yet.
NoCall ==
    [pc |-> "idle", media |-> FALSE, load_started |-> FALSE,
     created |-> FALSE, tmp |-> FALSE, returncode |-> NoExit,
     err |-> "", text |-> NoContent]

\* A Transcriber just constructed (transcriber.py 17-28): no model yet;
\* whisper is installed in the environment or not.
NewTranscriber(installed) ==
    [installed |-> installed, model |-> FALSE, loads |-> 0,
     calls |-> [k \in Tasks |-> NoCall]]

\* The call raises.
Failed(call, type) == [call EXCEPT !.pc = "raised", !.err = type]

\* _extract_audio that goes on whatever ffmpeg's exit code is.
ExtractAudioUnchecked(call, returncode) ==
    [call EXCEPT !.created = TRUE, !.returncode = returncode,
                 !.tmp = TRUE, !.pc = "transcribing"]

\* transcriber.py 66-97: _extract_audio.  The temporary file is created,
\* ffmpeg runs; on a non-zero exit the file is unlinked and RuntimeError
\* raised, else the recognition starts on the file.
ExtractAudio(call, returncode) ==
    IF returncode # 0
    THEN Failed([call EXCEPT !.created = TRUE, !.returncode = returncode,
                             !.tmp = FALSE], "RuntimeError")
    ELSE [call EXCEPT !.created = TRUE, !.returncode = returncode,
                      !.tmp = TRUE, !.pc = "transcribing"]

\* ---------------------------------------------------------------- state
VARIABLES
    fs,               \* fs[id]: the workspace ./results/{id}/
    resultsDir,       \* ./results exists
    pc,               \* where main() stands
    runs,             \* runs started so far
    urls,             \* the identifiers the user may type
    texts,            \* the strings the text producers may return
    highlights,       \* the timestamp lists select_times may return
    url,              \* the identifier read from stdin
    video_info,       \* id of the resolved metadata ("" before stage 1)
    transcribe,       \* main.py local
    summary_content,  \* main.py local
    images,           \* main.py local
    screenshot_times, \* main.py local
    done_times,       \* iterations of the screenshot loop finished
    trace,            \* this run's external calls, each followed by how it
                      \* ended ("return" or "raise") once it has
    enhance_args,     \* arguments of this run's enhance_summarize call
    fs0,              \* fs when this run started
    status,           \* per workspace: "new", "completed", "summaries_deleted"
    status0,          \* status when this run started
    execs,            \* per workspace and stage: completed executions
    other,            \* a second process running main(): its own state
    vs,               \* the VideoScreenshot call under way or last made
    tr                \* the Transcriber instance and the calls made on it

inputs == <<urls, texts, highlights>>

vars == <<fs, resultsDir, pc, runs, inputs, url, video_info, transcribe,
          summary_content, images, screenshot_times, done_times, trace,
          enhance_args, fs0, status, status0, execs, other, vs, tr>>

locals == <<transcribe, summary_content, images, screenshot_times, done_times>>
ghost == <<inputs, fs0, status0, other, vs, tr>>

Units == {"download", "transcribe", "summarize", "shots"}
NoArgs == [summary |-> NoContent, transcribe |-> NoContent, images |-> {}]

Quiescent == pc \in {"idle", "done", "failed"}
ws == fs[video_info]
Count(op) == Cardinality({i \in 1 .. Len(trace) : trace[i] = op})

\* A path built without the video id: one file for all workspaces.
PutShared(field, value) == [w \in Ids |-> [fs[w] EXCEPT ![field] = value]]

\* open(f"./results/{video_info['id']}/...", 'w').write(value)
Put(field, value) == [fs EXCEPT ![video_info][field] = value]
Completed(unit) == [execs EXCEPT ![video_info][unit] = @ + 1]

\* What belongs to one process running main(): where it stands, its
\* locals, and what is recorded about its run.
Process ==
    [pc |-> pc, url |-> url, video_info |-> video_info,
     transcribe |-> transcribe, summary_content |-> summary_content,
     images |-> images, screenshot_times |-> screenshot_times,
     done_times |-> done_times, trace |-> trace,
     enhance_args |-> enhance_args, fs0 |-> fs0, status0 |-> status0]

\* Nothing on disk, no run started.
InitRun ==
    /\ fs = [w \in Ids |-> NoWorkspace]
    /\ resultsDir = FALSE
    /\ pc = "idle"
    /\ runs = 0
    /\ url = ""
    /\ video_info = ""
    /\ transcribe = NoContent
    /\ summary_content = NoContent
    /\ images = {}
    /\ screenshot_times = <<>>
    /\ done_times = 0
    /\ trace = <<>>
    /\ enhance_args = NoArgs
    /\ fs0 = fs
    /\ status = [w \in Ids |-> "new"]
    /\ status0 = status
    /\ execs = [w \in Ids |-> [u \in Units |-> 0]]
    /\ other = Process

\* The user works on one video; the generated texts have "\n" line ends.
InitMain ==
    /\ urls = {"A"}
    /\ texts = Gen
    /\ highlights = HighlightSeqs
    /\ InitRun

Init ==
    /\ InitMain
    /\ vs = NoShot
    /\ tr = NewTranscriber(TRUE)

\* The run fails: the exception leaves main() and the process ends.
Raise ==
    /\ pc' = "failed"
    /\ trace' = Append(trace, "raise")
    /\ UNCHANGED <<fs, resultsDir, runs, url, video_info, locals,
                   enhance_args, ghost, status, execs>>

\* main.py 17-38: a new process, url read, extract_info(url) started.
StartRun ==
    /\ Quiescent
    /\ runs < MaxRuns
    /\ \E u \in urls : url' = u
    /\ runs' = runs + 1
    /\ pc' = "s1_wait"
    /\ video_info' = ""
    /\ transcribe' = NoContent
    /\ summary_content' = NoContent
    /\ images' = {}
    /\ screenshot_times' = <<>>
    /\ done_times' = 0
    /\ trace' = <<"extract_info">>
    /\ enhance_args' = NoArgs
    /\ fs0' = fs
    /\ status0' = status
    /\ UNCHANGED <<fs, resultsDir, inputs, status, execs, other, vs, tr>>

\* Stage 3 placed ahead of stage 2.
ResolveOKTranscribeFirst ==
    /\ pc = "s1_wait"
    /\ video_info' = url
    /\ resultsDir' = TRUE
    /\ fs' = [fs EXCEPT ![url].dir = TRUE]
    /\ trace' = Append(trace, "return")
    /\ pc' = "s3"
    /\ UNCHANGED <<runs, url, locals, enhance_args, ghost, status, execs>>

\* main.py 38-45: metadata returned, both makedirs(exist_ok=True).
ResolveOK ==
    /\ pc = "s1_wait"
    /\ video_info' = url
    /\ resultsDir' = TRUE
    /\ fs' = [fs EXCEPT ![url].dir = TRUE]
    /\ trace' = Append(trace, "return")
    /\ pc' = "s2"
    /\ UNCHANGED <<runs, url, locals, enhance_args, ghost, status, execs>>

\* os.makedirs("./results") moved ahead of extract_info.
ResolveFailMkdir ==
    /\ pc = "s1_wait"
    /\ pc' = "failed"
    /\ trace' = Append(trace, "raise")
    /\ resultsDir' = TRUE
    /\ UNCHANGED <<fs, runs, url, video_info, locals, enhance_args, ghost,
                   status, execs>>

ResolveFail == pc = "s1_wait" /\ Raise

\* Stage 2 that also skips the download while another process is
\* downloading the same video (a lock held next to video.mp4).
Stage2BeginLocked ==
    /\ pc = "s2"
    /\ IF \/ ws.video # NoContent
          \/ other.pc = "s2_wait" /\ other.video_info = video_info
       THEN pc' = "s3" /\ trace' = trace
       ELSE pc' = "s2_wait" /\ trace' = Append(trace, "download")
    /\ UNCHANGED <<fs, resultsDir, runs, url, video_info, locals,
                   enhance_args, ghost, status, execs>>

\* main.py 47-50
Stage2Begin ==
    /\ pc = "s2"
    /\ IF ws.video # NoContent
       THEN pc' = "s3" /\ trace' = trace
       ELSE pc' = "s2_wait" /\ trace' = Append(trace, "download")
    /\ UNCHANGED <<fs, resultsDir, runs, url, video_info, locals,
                   enhance_args, ghost, status, execs>>

\* main.py 50-51: yt-dlp wrote video.mp4.
Stage2OK ==
    /\ pc = "s2_wait"
    /\ \E g \in Gen : fs' = Put("video", g)
    /\ execs' = Completed("download")
    /\ trace' = Append(trace, "return")
    /\ pc' = "s3"
    /\ UNCHANGED <<resultsDir, runs, url, video_info, locals,
                   enhance_args, ghost, status>>

\* A download that is tried again after it raised.
Stage2FailRetry ==
    /\ pc = "s2_wait"
    /\ pc' = "s2"
    /\ trace' = Append(trace, "raise")
    /\ UNCHANGED <<fs, resultsDir, runs, url, video_info, locals,
                   enhance_args, ghost, status, execs>>

Stage2Fail == pc = "s2_wait" /\ Raise

\* main.py 57-65
Stage3Begin ==
    /\ pc = "s3"
    /\ IF ws.transcription # NoContent
       THEN /\ transcribe' = ReadText(ws.transcription)
            /\ pc' = "s4"
            /\ trace' = trace
       ELSE /\ transcribe' = transcribe
            /\ pc' = "s3_wait"
            /\ trace' = Append(trace, "transcribe")
    /\ UNCHANGED <<fs, resultsDir, runs, url, video_info, summary_content,
                   images, screenshot_times, done_times, enhance_args, ghost,
                   status, execs>>

\* main.py 65-68
Stage3OK ==
    /\ pc = "s3_wait"
    /\ \E g \in texts :
        transcribe' = g /\ fs' = Put("transcription", WriteText(g))
    /\ execs' = Completed("transcribe")
    /\ trace' = Append(trace, "return")
    /\ pc' = "s4"
    /\ UNCHANGED <<resultsDir, runs, url, video_info, summary_content, images,
                   screenshot_times, done_times, enhance_args, ghost,
                   status>>

Stage3Fail == pc = "s3_wait" /\ Raise

\* main.py 71-77
Stage4Begin ==
    /\ pc = "s4"
    /\ IF ws.raw # NoContent
       THEN /\ summary_content' = ReadText(ws.raw)
            /\ pc' = "s5"
            /\ trace' = trace
       ELSE /\ summary_content' = summary_content
            /\ pc' = "s4_wait"
            /\ trace' = Append(trace, "summarize")
    /\ UNCHANGED <<fs, resultsDir, runs, url, video_info, transcribe, images,
                   screenshot_times, done_times, enhance_args, ghost, status,
                   execs>>

\* main.py 77-81
Stage4OK ==
    /\ pc = "s4_wait"
    /\ \E g \in texts :
        summary_content' = g /\ fs' = Put("raw", WriteText(g))
    /\ execs' = Completed("summarize")
    /\ trace' = Append(trace, "return")
    /\ pc' = "s5"
    /\ UNCHANGED <<resultsDir, runs, url, video_info, transcribe, images,
                   screenshot_times, done_times, enhance_args, ghost,
                   status>>

\* summarize called again and again until it returns, the failed
\* attempts forgotten.
Stage4FailRetry ==
    /\ pc = "s4_wait"
    /\ pc' = "s4"
    /\ trace' = SubSeq(trace, 1, Len(trace) - 1)
    /\ UNCHANGED <<fs, resultsDir, runs, url, video_info, locals,
                   enhance_args, ghost, status, execs>>

\* main.py 77: summarize raised.
Stage4Fail == pc = "s4_wait" /\ Raise

\* Stage 5 that selects again when this run wrote a new raw summary.
Stage5BeginStale ==
    /\ pc = "s5"
    /\ IF ws.shotsDir /\ Count("summarize") = 0
       THEN /\ images' = LoadImages(ws.shots)
            /\ pc' = "s7"
            /\ trace' = trace
       ELSE /\ images' = images
            /\ pc' = "s5_wait"
            /\ trace' = Append(trace, "select_times")
    /\ UNCHANGED <<fs, resultsDir, runs, url, video_info, transcribe,
                   summary_content, screenshot_times, done_times, enhance_args,
                   ghost, status, execs>>

\* main.py 84-99
Stage5Begin ==
    /\ pc = "s5"
    /\ IF ws.shotsDir
       THEN /\ images' = LoadImages(ws.shots)
            /\ pc' = "s7"
            /\ trace' = trace
       ELSE /\ images' = images
            /\ pc' = "s5_wait"
            /\ trace' = Append(trace, "select_times")
    /\ UNCHANGED <<fs, resultsDir, runs, url, video_info, transcribe,
                   summary_content, screenshot_times, done_times, enhance_args,
                   ghost, status, execs>>

\* main.py 99-100
Stage5OK ==
    /\ pc = "s5_wait"
    /\ \E ts \in highlights : screenshot_times' = ts
    /\ done_times' = 0
    /\ trace' = Append(trace, "return")
    /\ pc' = "s6"
    /\ UNCHANGED <<fs, resultsDir, runs, url, video_info, transcribe,
                   summary_content, images, enhance_args, ghost, status,
                   execs>>

Stage5Fail == pc = "s5_wait" /\ Raise

\* Stage 6 through the batch call, which rejects an empty list
\* (video_screenshot.py 132-133).
Stage6BeginBatch ==
    /\ pc = "s6"
    /\ IF screenshot_times = <<>>
       THEN Raise
       ELSE /\ IF done_times < Len(screenshot_times)
               THEN /\ pc' = "s6_wait"
                    /\ trace' = Append(trace, "get_image")
                    /\ execs' = execs
               ELSE /\ pc' = "s7"
                    /\ trace' = trace
                    /\ execs' = Completed("shots")
            /\ UNCHANGED <<fs, resultsDir, runs, url, video_info, locals,
                           enhance_args, ghost, status>>

\* main.py 102-103, 110: next iteration of the loop, or the loop is over.
Stage6Begin ==
    /\ pc = "s6"
    /\ IF done_times < Len(screenshot_times)
       THEN /\ pc' = "s6_wait"
            /\ trace' = Append(trace, "get_image")
            /\ execs' = execs
       ELSE /\ pc' = "s7"
            /\ trace' = trace
            /\ execs' = Completed("shots")
    /\ UNCHANGED <<fs, resultsDir, runs, url, video_info, locals,
                   enhance_args, ghost, status>>

\* The loop only collecting the images, the files left for later.
Stage6OKDeferWrite ==
    /\ pc = "s6_wait"
    /\ LET time == screenshot_times[done_times + 1]
       IN  images' = DictSet(images, time, Frame(ws.video, time))
    /\ done_times' = done_times + 1
    /\ trace' = Append(trace, "return")
    /\ pc' = "s6"
    /\ UNCHANGED <<fs, resultsDir, runs, url, video_info, transcribe,
                   summary_content, screenshot_times, enhance_args,
                   ghost, status, execs>>

\* main.py 103-108: the frame came back, images[time] set, file written.
Stage6OK ==
    /\ pc = "s6_wait"
    /\ LET time == screenshot_times[done_times + 1]
           image_binary == Frame(ws.video, time)
       IN  /\ images' = DictSet(images, time, image_binary)
           /\ fs' = [fs EXCEPT ![video_info].shotsDir = TRUE,
                               ![video_info].shots =
                                   (JpgName(time) :> image_binary) @@ @]
    /\ done_times' = done_times + 1
    /\ trace' = Append(trace, "return")
    /\ pc' = "s6"
    /\ UNCHANGED <<resultsDir, runs, url, video_info, transcribe,
                   summary_content, screenshot_times, enhance_args,
                   ghost, status, execs>>

Stage6Fail == pc = "s6_wait" /\ Raise

\* Stage 7 guarded by an existence test like the other stages.
Stage7BeginSkipExisting ==
    /\ pc = "s7"
    /\ IF ws.summary # NoContent
       THEN pc' = "done" /\ trace' = trace /\ enhance_args' = enhance_args
       ELSE /\ pc' = "s7_wait"
            /\ trace' = Append(trace, "enhance_summarize")
            /\ enhance_args' = [summary |-> summary_content,
                                transcribe |-> transcribe, images |-> images]
    /\ UNCHANGED <<fs, resultsDir, runs, url, video_info, locals, ghost,
                   status, execs>>

\* Stage 7 that opens summary.md for writing before the call returns.
Stage7BeginTruncate ==
    /\ pc = "s7"
    /\ pc' = "s7_wait"
    /\ trace' = Append(trace, "enhance_summarize")
    /\ enhance_args' = [summary |-> summary_content, transcribe |-> transcribe,
                        images |-> images]
    /\ fs' = Put("summary", NoContent)
    /\ UNCHANGED <<resultsDir, runs, url, video_info, locals, ghost,
                   status, execs>>

\* main.py 112-113
Stage7Begin ==
    /\ pc = "s7"
    /\ pc' = "s7_wait"
    /\ trace' = Append(trace, "enhance_summarize")
    /\ enhance_args' = [summary |-> summary_content, transcribe |-> transcribe,
                        images |-> images]
    /\ UNCHANGED <<fs, resultsDir, runs, url, video_info, locals, ghost,
                   status, execs>>

\* main.py 113-116
Stage7OK ==
    /\ pc = "s7_wait"
    /\ \E g \in texts :
        summary_content' = g /\ fs' = Put("summary", WriteText(g))
    /\ status' = [status EXCEPT ![video_info] = "completed"]
    /\ trace' = Append(trace, "return")
    /\ pc' = "done"
    /\ UNCHANGED <<resultsDir, runs, url, video_info, transcribe, images,
                   screenshot_times, done_times, enhance_args, ghost,
                   execs>>

\* Stage 7 with summary.md opened for writing around the call: a call
\* that raises leaves the file empty.
Stage7FailTruncate ==
    /\ pc = "s7_wait"
    /\ pc' = "failed"
    /\ trace' = Append(trace, "raise")
    /\ fs' = Put("summary", NoContent)
    /\ UNCHANGED <<resultsDir, runs, url, video_info, locals, enhance_args,
                   ghost, status, execs>>

\* main.py 113: enhance_summarize raised.
Stage7Fail == pc = "s7_wait" /\ Raise

Next ==
    \/ StartRun
    \/ ResolveOK
    \/ ResolveFail
    \/ Stage2Begin
    \/ Stage2OK
    \/ Stage2Fail
    \/ Stage3Begin
    \/ Stage3OK
    \/ Stage3Fail
    \/ Stage4Begin
    \/ Stage4OK
    \/ Stage4Fail
    \/ Stage5Begin
    \/ Stage5OK
    \/ Stage5Fail
    \/ Stage6Begin
    \/ Stage6OK
    \/ Stage6Fail
    \/ Stage7Begin
    \/ Stage7OK
    \/ Stage7Fail

Spec == Init /\ [][Next]_vars

\* The user deletes summary.md and summary-raw.md of a completed workspace
\* between two runs (spec section 8, resume correctness).
DeleteSummaries ==
    /\ Quiescent
    /\ \E w \in urls :
        /\ status[w] = "completed"
        /\ fs' = [fs EXCEPT ![w].raw = NoContent, ![w].summary = NoContent]
        /\ status' = [status EXCEPT ![w] = "summaries_deleted"]
    /\ UNCHANGED <<resultsDir, pc, runs, url, video_info, locals, trace,
                   enhance_args, ghost, execs>>

NextResume ==
    \/ Next
    \/ DeleteSummaries

SpecResume == Init /\ [][NextResume]_vars

\* The user works on two videos in turn; one text per producer.
InitTwo ==
    /\ urls = Ids
    /\ texts = {1}
    /\ highlights = HighlightSeqs
    /\ InitRun
    /\ vs = NoShot
    /\ tr = NewTranscriber(TRUE)

SpecTwo == InitTwo /\ [][Next]_vars

\* Two processes run main() at the same time; they share the disk only.
\* The steps are those of the process at hand, and the operating system
\* may turn to the other process between any two of them.
Switch ==
    /\ other' = Process
    /\ pc' = other.pc
    /\ url' = other.url
    /\ video_info' = other.video_info
    /\ transcribe' = other.transcribe
    /\ summary_content' = other.summary_content
    /\ images' = other.images
    /\ screenshot_times' = other.screenshot_times
    /\ done_times' = other.done_times
    /\ trace' = other.trace
    /\ enhance_args' = other.enhance_args
    /\ fs0' = other.fs0
    /\ status0' = other.status0
    /\ UNCHANGED <<fs, resultsDir, runs, inputs, status, execs, vs, tr>>

NextRace ==
    \/ Next
    \/ Switch

\* Both processes work on the same video; select_times returns no
\* timestamp or a single one.
InitRace ==
    /\ urls = {"A"}
    /\ texts = {1}
    /\ highlights = {<<>>, <<Float(FALSE, 15)>>}
    /\ InitRun
    /\ vs = NoShot
    /\ tr = NewTranscriber(TRUE)

SpecRace == InitRace /\ [][NextRace]_vars

\* What main() does by itself between two external calls, and the ends of
\* the external calls.
Steps ==
    \/ Stage2Begin
    \/ Stage3Begin
    \/ Stage4Begin
    \/ Stage5Begin
    \/ Stage6Begin
    \/ Stage7Begin

Returns ==
    \/ ResolveOK
    \/ ResolveFail
    \/ Stage2OK
    \/ Stage2Fail
    \/ Stage3OK
    \/ Stage3Fail
    \/ Stage4OK
    \/ Stage4Fail
    \/ Stage5OK
    \/ Stage5Fail
    \/ Stage6OK
    \/ Stage6Fail
    \/ Stage7OK
    \/ Stage7Fail

\* asyncio.run(main()) runs the one coroutine whenever it is not waiting:
\* a step of main() that can be taken is taken.  Nothing is assumed about
\* the external calls.
SpecLive == Init /\ [][Next]_vars /\ WF_vars(Steps)

\* The same runs when the generated texts may also have "\r\n" line ends.
InitText ==
    /\ urls = {"A"}
    /\ texts = Texts
    /\ highlights = HighlightSeqs
    /\ InitRun
    /\ vs = NoShot
    /\ tr = NewTranscriber(TRUE)

SpecText == InitText /\ [][Next]_vars

\* ------------------------------------------------ VideoScreenshot calls
\* A call of one of the four operations: the checks, and for an accepted
\* call the state from which its frames are extracted one by one.  The
\* object keeps no state between calls, so one call per behaviour is enough.
ShotCall ==
    /\ vs.op = "none"
    /\ \E op \in ShotOps, video \in {NoContent} \cup Gen, r \in Regions,
          timestamps \in HighlightSeqs :
        /\ op \notin CroppedOps => r = NoRegion
        /\ op \notin MultiOps => Len(timestamps) = 1
        /\ LET pre == Precheck(op, video, r, timestamps)
           IN  vs' = [op |-> op, video |-> video, region |-> r,
                      timestamps |-> timestamps, results |-> <<>>,
                      pos |-> 0, spawned |-> 0,
                      out |-> IF pre # Passed THEN pre.type
                              ELSE IF timestamps = <<>> THEN "ok"
                              ELSE "running",
                      msg |-> pre.msg, ret |-> <<>>, returncode |-> -1,
                      stderr |-> NoStderr, cause |-> NoCause]
    /\ UNCHANGED <<fs, resultsDir, pc, runs, inputs, url, video_info,
                   locals,
                   trace, enhance_args, fs0, status, status0, execs, other,
                   tr>>

\* A batch that skips a frame ffmpeg failed on and carries on.
ShotFrameFailSkip ==
    /\ vs.out = "running"
    /\ LET last == vs.pos + 1 = Len(vs.timestamps)
       IN  vs' = [vs EXCEPT !.pos = @ + 1, !.spawned = @ + 1,
                            !.returncode = 1,
                            !.out = IF last THEN "ok" ELSE "running",
                            !.ret = IF last THEN vs.results ELSE <<>>]
    /\ UNCHANGED <<fs, resultsDir, pc, runs, inputs, url, video_info,
                   locals,
                   trace, enhance_args, fs0, status, status0, execs, other,
                   tr>>

\* video_screenshot.py 39-54, 138-141: ffmpeg exits with 0 for the next
\* timestamp; after the last one the call returns.
ShotFrameOK ==
    /\ vs.out = "running"
    /\ LET time == vs.timestamps[vs.pos + 1]
           results == Append(vs.results,
                             ShotFrame(vs.op, vs.video, time, vs.region))
           last == vs.pos + 1 = Len(vs.timestamps)
       IN  vs' = [vs EXCEPT !.results = results, !.pos = @ + 1,
                            !.spawned = @ + 1, !.returncode = 0,
                            !.out = IF last THEN "ok" ELSE "running",
                            !.ret = IF last THEN results ELSE <<>>]
    /\ UNCHANGED <<fs, resultsDir, pc, runs, inputs, url, video_info,
                   locals,
                   trace, enhance_args, fs0, status, status0, execs, other,
                   tr>>

\* video_screenshot.py 39-60: ffmpeg exits with a non-zero code, stderr
\* captured; the RuntimeError leaves the call.
ShotFrameFail ==
    /\ vs.out = "running"
    /\ \E stderr \in Stderr :
        vs' = [vs EXCEPT !.spawned = @ + 1, !.returncode = 1,
                         !.stderr = stderr, !.out = "RuntimeError",
                         !.msg = "ffmpeg", !.cause = FfmpegError(stderr)]
    /\ UNCHANGED <<fs, resultsDir, pc, runs, inputs, url, video_info,
                   locals,
                   trace, enhance_args, fs0, status, status0, execs, other,
                   tr>>

NextShot ==
    \/ ShotCall
    \/ ShotFrameOK
    \/ ShotFrameFail

SpecShot == Init /\ [][NextShot]_vars

\* ----------------------------------------------------- Transcriber calls
main_vars == <<fs, resultsDir, pc, runs, inputs, url, video_info,
               locals,
               trace, enhance_args, fs0, status, status0, execs, other>>

SetCall(k, call) == [tr EXCEPT !.calls[k] = call]

\* transcriber.py 116-124 up to the first suspension: the test for the
\* file, then _load_whisper_model (37-50), which returns at once when the
\* model is there, raises ImportError when whisper is missing and else
\* hands load_model to the executor; with the model at hand _extract_audio
\* follows without suspension.
TrCall(k) ==
    /\ tr.calls[k].pc \in {"idle", "returned", "raised"}
    /\ \E media \in BOOLEAN, returncode \in {0, 1} :
        LET call == [NoCall EXCEPT !.media = media]
        IN  tr' = IF ~media
                  THEN SetCall(k, Failed(call, "FileExistsError"))
                  ELSE IF tr.model
                  THEN SetCall(k, ExtractAudio(call, returncode))
                  ELSE IF ~tr.installed
                  THEN SetCall(k, Failed(call, "ImportError"))
                  ELSE SetCall(k, [call EXCEPT !.pc = "loading",
                                               !.load_started = TRUE])
    /\ UNCHANGED <<main_vars, vs>>

\* transcriber.py 48-50, 124: load_model returned, the model is stored,
\* _extract_audio runs.
TrLoadOK(k) ==
    /\ tr.calls[k].pc = "loading"
    /\ \E returncode \in {0, 1} :
        tr' = [tr EXCEPT !.model = TRUE, !.loads = @ + 1,
                         !.calls[k] = ExtractAudio(@, returncode)]
    /\ UNCHANGED <<main_vars, vs>>

\* transcriber.py 48-50: load_model raised; the error leaves the call.
TrLoadFail(k) ==
    /\ tr.calls[k].pc = "loading"
    /\ tr' = SetCall(k, Failed(tr.calls[k], "LoadError"))
    /\ UNCHANGED <<main_vars, vs>>

\* transcriber.py 134-144: the recognition returned; finally unlinks.
TrTranscribeOK(k) ==
    /\ tr.calls[k].pc = "transcribing"
    /\ \E g \in Gen :
        tr' = SetCall(k, [tr.calls[k] EXCEPT !.pc = "returned", !.text = g,
                                             !.tmp = FALSE])
    /\ UNCHANGED <<main_vars, vs>>

\* A recognition failure that skips the cleanup.
TrTranscribeFailLeak(k) ==
    /\ tr.calls[k].pc = "transcribing"
    /\ tr' = SetCall(k, Failed(tr.calls[k], "WhisperError"))
    /\ UNCHANGED <<main_vars, vs>>

\* transcriber.py 134-144: the recognition raised; finally unlinks.
TrTranscribeFail(k) ==
    /\ tr.calls[k].pc = "transcribing"
    /\ tr' = SetCall(k, Failed([tr.calls[k] EXCEPT !.tmp = FALSE],
                               "WhisperError"))
    /\ UNCHANGED <<main_vars, vs>>

NextTr ==
    \E k \in Tasks :
        \/ TrCall(k)
        \/ TrLoadOK(k)
        \/ TrLoadFail(k)
        \/ TrTranscribeOK(k)
        \/ TrTranscribeFail(k)

\* One Transcriber, whisper installed or not, called by the coroutines.
InitTr ==
    /\ InitMain
    /\ vs = NoShot
    /\ \E installed \in BOOLEAN : tr = NewTranscriber(installed)

SpecTr == InitTr /\ [][NextTr]_vars

\* ------------------------------------------------------------ vocabulary
Resolved == video_info # ""
ws0 == fs0[video_info]

\* The run works on a workspace in which an earlier run finished stage 7.
OnCompleted == Resolved /\ status0[video_info] = "completed"

\* The run works on a completed workspace that lost exactly its two summaries.
OnResume ==
    /\ Resolved
    /\ status0[video_info] = "summaries_deleted"
    /\ ws0.raw = NoContent
    /\ ws0.summary = NoContent

\* The call that raised, when the run failed.
Raised(op) ==
    pc = "failed" /\ Len(trace) >= 2 /\ trace[Len(trace) - 1] = op

\* select_times returned in this run.
SelectReturned ==
    \E i \in 1 .. Len(trace) - 1 :
        trace[i] = "select_times" /\ trace[i + 1] = "return"

Stages2to6 == {"download", "transcribe", "summarize", "select_times", "get_image"}

\* ---------------------------------------------------------------- C1
\* C1: a run on a completed, untouched workspace leaves video.mp4,
\* transcription.txt, summary-raw.md and the files under screenshots/
\* byte-identical; only summary.md may change.
C1_Idempotent ==
    OnCompleted =>
        /\ ws.video = ws0.video
        /\ ws.transcription = ws0.transcription
        /\ ws.raw = ws0.raw
        /\ ws.shotsDir = ws0.shotsDir
        /\ ws.shots = ws0.shots

\* ---------------------------------------------------------------- C2
\* C2: a run on a completed workspace that lost only summary.md and
\* summary-raw.md calls neither download nor transcribe, takes the images
\* from screenshots/ (no selection, no extraction), and when it ends has
\* called summarize and enhance_summarize, written both files, and enhanced
\* the new raw summary with the transcript read from transcription.txt.
C2_Resume ==
    OnResume =>
        /\ Count("download") = 0
        /\ Count("transcribe") = 0
        /\ Count("select_times") = 0
        /\ Count("get_image") = 0
        /\ pc = "done" =>
            /\ Count("summarize") = 1
            /\ Count("enhance_summarize") = 1
            /\ ws.raw # NoContent
            /\ ws.summary # NoContent
            /\ enhance_args.summary = ws.raw
            /\ enhance_args.transcribe = ws0.transcription
            /\ enhance_args.images = LoadImages(ws0.shots)

\* ---------------------------------------------------------------- C3
\* The images of the screenshots/ directory the run found, under keys of
\* the given Python type.
FoundImages(kind) ==
    {Entry(kind, n.stem, ws0.shots[n]) : n \in DOMAIN ws0.shots}

ShortCircuit(kind) ==
    (Resolved /\ ws0.shotsDir) =>
        /\ Count("select_times") = 0
        /\ Count("get_image") = 0
        /\ Count("enhance_summarize") = 1 => enhance_args.images = FoundImages(kind)

\* C3 as stated: when screenshots/ exists at the start of a run, the run
\* calls neither select_times nor get_image and passes exactly the images
\* found to enhance_summarize, keyed by the file stem as a float.
C3_ShortCircuitFloat == ShortCircuit("float")

\* C3 amended: the same, the images keyed by the file stem as the string
\* it is (the stem is never converted to a float).
C3_ShortCircuit == ShortCircuit("str")

\* A run that found two screenshots, wrote a new raw summary and called
\* enhance_summarize with the two images.
C3_Witness ==
    /\ Resolved
    /\ ws0.shotsDir
    /\ Cardinality(DOMAIN ws0.shots) = 2
    /\ Count("summarize") = 1
    /\ Count("enhance_summarize") = 1
    /\ Cardinality(enhance_args.images) = 2

\* ---------------------------------------------------------------- C4
\* C4: over all runs against a workspace, download, transcribe, summarize
\* and the select+extract unit each run to completion at most once.
C4_AtMostOnce == \A w \in Ids : \A u \in Units : execs[w][u] <= 1

\* ---------------------------------------------------------------- C5
\* C5: a run on a completed workspace calls none of download, transcribe,
\* summarize, select_times, get_image.
C5_OnlyStage7 == OnCompleted => \A op \in Stages2to6 : Count(op) = 0

\* ---------------------------------------------------------------- C6
\* C6: a run that gets through stages 1-6 calls enhance_summarize, whatever
\* is on disk; a run ends normally only after exactly one such call, with
\* summary.md holding what the call returned.
C6_Stage7Always ==
    [][/\ pc = "s7" => /\ pc' = "s7_wait"
                       /\ trace' = Append(trace, "enhance_summarize")
       /\ pc' = "done" => /\ pc = "s7_wait"
                          /\ Count("enhance_summarize")' = 1
                          /\ fs'[video_info].summary = summary_content'
                          /\ \E g \in Gen : summary_content' = g
       /\ Count("enhance_summarize")' <= 1]_vars

\* A completed run over a workspace that already held summary.md.
C6_Witness ==
    /\ pc = "done"
    /\ ws0.summary # NoContent
    /\ ws.summary # ws0.summary

\* ---------------------------------------------------------------- C7
\* C7: when select_times returns no timestamp, get_image is not called, the
\* run can only fail in enhance_summarize itself, that call gets an empty
\* image mapping, and its result is what summary.md holds at the end.
C7_EmptyHighlights ==
    (SelectReturned /\ screenshot_times = <<>>) =>
        /\ Count("get_image") = 0
        /\ pc = "failed" => Raised("enhance_summarize")
        /\ Count("enhance_summarize") = 1 => enhance_args.images = {}
        /\ pc = "done" => /\ Count("enhance_summarize") = 1
                          /\ ws.summary = summary_content
        /\ ~ws.shotsDir

\* A run completed after select_times returned the empty list.
C7_Witness ==
    /\ pc = "done"
    /\ SelectReturned
    /\ screenshot_times = <<>>
    /\ ws.summary # NoContent

\* ---------------------------------------------------------------- C8
OnceOps == {"extract_info", "download", "transcribe", "summarize",
            "select_times", "enhance_summarize"}

NoRetry ==
    /\ \A op \in OnceOps : Count(op) <= 1
    /\ Count("get_image") <= Len(screenshot_times)
    /\ Count("get_image") \in {done_times, done_times + 1}
    /\ Count("raise") <= 1
    /\ \A i \in 1 .. Len(trace) : trace[i] = "raise" => i = Len(trace)
    /\ pc = "failed" <=> Count("raise") = 1

\* C8: in one run every external call is made at most once (get_image once
\* per element of the timestamp list), and a call that raises ends the run:
\* it is the last call, and nothing is written until a new run starts.
C8_NoRetryAbort ==
    [][/\ NoRetry'
       /\ pc = "failed" => /\ fs' = fs
                           /\ runs' = runs + 1
                           /\ trace' = <<"extract_info">>]_vars

\* A run that failed in the screenshot loop, followed by nothing.
C8_Witness ==
    /\ Raised("get_image")
    /\ done_times = 1
    /\ Len(screenshot_times) = 2

\* ---------------------------------------------------------------- C9
\* Everything workspace v holds is still there, unchanged, in workspace w;
\* summary.md is left out when overwritable is set.
Kept(v, w, overwritable) ==
    /\ v.dir => w.dir
    /\ v.video # NoContent => w.video = v.video
    /\ v.transcription # NoContent => w.transcription = v.transcription
    /\ v.raw # NoContent => w.raw = v.raw
    /\ v.shotsDir => w.shotsDir
    /\ \A n \in DOMAIN v.shots : n \in DOMAIN w.shots /\ w.shots[n] = v.shots[n]
    /\ (v.summary # NoContent /\ ~overwritable) => w.summary = v.summary

\* C9: no step of a run removes or changes an artifact that exists, except
\* that the completion of stage 7 overwrites summary.md; the step at which
\* a run aborts changes nothing on disk.
C9_NoCorruption ==
    [][/\ \A w \in Ids : Kept(fs[w], fs'[w], pc' = "done")
       /\ pc' = "failed" => fs' = fs]_vars

\* A run aborted in stage 7 on a workspace holding every artifact,
\* summary.md of an earlier run included.
C9_Witness ==
    /\ Raised("enhance_summarize")
    /\ ws.video # NoContent
    /\ ws.transcription # NoContent
    /\ ws.raw # NoContent
    /\ ws.shotsDir
    /\ ws.summary # NoContent
    /\ Kept(ws0, ws, FALSE)

\* ---------------------------------------------------------------- C10
\* C10: between runs, a checkpoint exists only if the stage that produces
\* it ran to completion.
C10_CheckpointSound ==
    Quiescent =>
        \A w \in Ids :
            /\ fs[w].video # NoContent => execs[w]["download"] >= 1
            /\ fs[w].transcription # NoContent => execs[w]["transcribe"] >= 1
            /\ fs[w].raw # NoContent => execs[w]["summarize"] >= 1
            /\ fs[w].shotsDir => execs[w]["shots"] >= 1

\* ---------------------------------------------------------------- C11
Calls == {"extract_info", "download", "transcribe", "summarize",
          "select_times", "get_image", "enhance_summarize"}

\* The stage a call belongs to.
Rank(op) ==
    CASE op = "extract_info" -> 1
      [] op = "download" -> 2
      [] op = "transcribe" -> 3
      [] op = "summarize" -> 4
      [] op = "select_times" -> 5
      [] op = "get_image" -> 6
      [] op = "enhance_summarize" -> 7

CallAt == {i \in 1 .. Len(trace) : trace[i] \in Calls}

\* C11: the calls of a run come in stage order, each after the call before
\* it returned, and each with its input at hand: transcribe with video.mp4
\* on disk, summarize with a transcript, select_times with a raw summary,
\* get_image after select_times returned, enhance_summarize with the raw
\* summary, the transcript and the complete image set.
C11_StageOrder ==
    /\ \A i \in CallAt : \A j \in CallAt :
          i < j => /\ Rank(trace[i]) <= Rank(trace[j])
                   /\ Rank(trace[i]) = Rank(trace[j]) => trace[i] = "get_image"
    /\ \A i \in CallAt : i > 1 => trace[i - 1] = "return"
    /\ Count("download") >= 1 => Resolved /\ ws.dir
    /\ Count("transcribe") >= 1 => ws.video # NoContent
    /\ Count("summarize") >= 1 =>
          /\ transcribe # NoContent
          /\ ReadText(transcribe) = ReadText(ws.transcription)
    /\ Count("select_times") >= 1 =>
          summary_content # NoContent /\ transcribe # NoContent
    /\ Count("get_image") >= 1 => SelectReturned /\ ws.video # NoContent
    /\ Count("enhance_summarize") >= 1 =>
          /\ ReadText(enhance_args.summary) = ReadText(ws.raw)
          /\ enhance_args.summary # NoContent
          /\ ReadText(enhance_args.transcribe) = ReadText(ws.transcription)
          /\ enhance_args.transcribe # NoContent
          /\ enhance_args.images = images
          /\ \/ ws0.shotsDir
             \/ SelectReturned /\ done_times = Len(screenshot_times)

\* A run that executed every stage, two extractions included, and ended.
C11_Witness ==
    /\ pc = "done"
    /\ \A op \in Calls : Count(op) >= 1
    /\ Count("get_image") = 2

\* ---------------------------------------------------------------- C12
WaitStates == {"s1_wait", "s2_wait", "s3_wait", "s4_wait", "s5_wait",
               "s6_wait", "s7_wait"}

\* Calls started and not yet ended.
InFlight == Cardinality(CallAt) - Count("return") - Count("raise")

\* Iterations of the screenshot loop whose get_image call has returned.
Extracted ==
    Count("get_image") -
        (IF pc = "s6_wait" \/ Raised("get_image") THEN 1 ELSE 0)

OneAtATime ==
    /\ InFlight \in {0, 1}
    /\ InFlight = 1 <=> pc \in WaitStates
    /\ Extracted = done_times
    /\ \A j \in 1 .. Extracted :
          /\ JpgName(screenshot_times[j]) \in DOMAIN ws.shots
          /\ ws.shots[JpgName(screenshot_times[j])]
                = Frame(ws.video, screenshot_times[j])

\* C12: at most one external call is in flight, the workspace is written
\* only by the stage whose call just returned, and when the extraction for
\* a timestamp starts, the images of all earlier timestamps are on disk.
C12_Sequential ==
    [][/\ OneAtATime'
       /\ fs' # fs => /\ pc \in WaitStates
                      /\ trace' = Append(trace, "return")]_vars

\* The second extraction is in flight, the first image is on disk.
C12_Witness ==
    /\ pc = "s6_wait"
    /\ done_times = 1
    /\ JpgName(screenshot_times[1]) \in DOMAIN ws.shots

\* ---------------------------------------------------------------- C13
\* The spec's error classes as the code raises them.
NotFound == "FileExistsError"
Validation == "ValueError"
ProcessFailure == "RuntimeError"

\* C13: a cropped extraction (single or batch) on an existing file raises
\* a Validation error and spawns no process unless top_left.x <
\* bottom_right.x and top_left.y < bottom_right.y; a region with both is
\* never rejected, whatever the frame size, and goes on to ffmpeg.
C13_RegionValidation ==
    (vs.op \in CroppedOps /\ vs.video # NoContent) =>
        /\ ~ValidRegion(vs.region) =>
              /\ vs.out = Validation
              /\ vs.spawned = 0
              /\ vs.ret = <<>>
        /\ ValidRegion(vs.region) =>
              /\ ~(vs.out = Validation /\ vs.msg = "crop")
              /\ vs.timestamps # <<>> =>
                    /\ vs.out \in {"running", "ok", ProcessFailure}
                    /\ vs.out # "running" => vs.spawned >= 1

\* A batch crop whose corners share their x coordinate is rejected.
C13_Witness ==
    /\ vs.op = "get_multi_cropped_image"
    /\ vs.video # NoContent
    /\ vs.timestamps # <<>>
    /\ vs.region.top_left.x = vs.region.bottom_right.x
    /\ vs.region.top_left.y < vs.region.bottom_right.y
    /\ vs.out = Validation
    /\ vs.spawned = 0

\* ---------------------------------------------------------------- C14
\* C14: both batch operations, on an existing file and an empty timestamp
\* list, raise a Validation error, return nothing and extract nothing.
C14_EmptyBatch ==
    (vs.op \in MultiOps /\ vs.video # NoContent /\ vs.timestamps = <<>>) =>
        /\ vs.out = Validation
        /\ vs.ret = <<>>
        /\ vs.results = <<>>
        /\ vs.spawned = 0

\* The cropped batch with a valid region and no timestamp is rejected.
C14_Witness ==
    /\ vs.op = "get_multi_cropped_image"
    /\ vs.video # NoContent
    /\ vs.timestamps = <<>>
    /\ ValidRegion(vs.region)
    /\ vs.out = Validation
    /\ vs.msg = "empty"

\* ---------------------------------------------------------------- C15
\* C15: each of the four operations, on a path that does not exist, raises
\* NotFound without spawning a process, also when the list is empty or the
\* region invalid.
C15_MissingFile ==
    (vs.op \in ShotOps /\ vs.video = NoContent) =>
        /\ vs.out = NotFound
        /\ vs.spawned = 0
        /\ vs.ret = <<>>

\* Missing file, empty list and reversed region at once: NotFound.
C15_Witness ==
    /\ vs.op = "get_multi_cropped_image"
    /\ vs.video = NoContent
    /\ vs.timestamps = <<>>
    /\ ~ValidRegion(vs.region)
    /\ vs.out = NotFound

\* ---------------------------------------------------------------- C16
\* C16: a batch over n >= 1 timestamps that passes the checks returns, when
\* every extraction succeeds, n images, the i-th being the extraction for
\* the i-th timestamp; when an extraction fails it raises that error,
\* returns nothing, and starts no extraction for a later timestamp.
C16_BatchOrder ==
    (/\ vs.op \in MultiOps
     /\ vs.video # NoContent
     /\ vs.timestamps # <<>>
     /\ vs.op \in CroppedOps => ValidRegion(vs.region)) =>
        /\ vs.out \in {"running", "ok", ProcessFailure}
        /\ vs.out = "ok" =>
              /\ Len(vs.ret) = Len(vs.timestamps)
              /\ vs.spawned = Len(vs.timestamps)
              /\ \A i \in 1 .. Len(vs.ret) :
                    vs.ret[i] = ShotFrame(vs.op, vs.video, vs.timestamps[i],
                                          vs.region)
        /\ vs.out = ProcessFailure =>
              /\ vs.ret = <<>>
              /\ vs.spawned = Len(vs.results) + 1
              /\ vs.spawned <= Len(vs.timestamps)
        /\ vs.out = "running" =>
              /\ vs.ret = <<>>
              /\ vs.spawned = Len(vs.results)

\* A batch of two timestamps whose first extraction failed.
C16_Witness ==
    /\ vs.op \in MultiOps
    /\ Len(vs.timestamps) = 2
    /\ vs.out = ProcessFailure
    /\ vs.spawned = 1
    /\ vs.ret = <<>>

\* ---------------------------------------------------------------- C17
Ended(call) == call.pc \in {"returned", "raised"}

\* C17: once a transcribe call has returned or raised, the temporary audio
\* file it created is gone; the file exists only while the recognition
\* runs.
C17_TempCleanup ==
    \A k \in Tasks :
        /\ Ended(tr.calls[k]) => ~tr.calls[k].tmp
        /\ tr.calls[k].tmp => tr.calls[k].pc = "transcribing"

\* A call whose recognition raised after the audio had been extracted.
C17_Witness ==
    \E k \in Tasks :
        /\ tr.calls[k].pc = "raised"
        /\ tr.calls[k].err = "WhisperError"
        /\ tr.calls[k].created
        /\ ~tr.calls[k].tmp

\* ---------------------------------------------------------------- C18
\* C18: whatever the order and interleaving of the calls on one
\* Transcriber, load_model completes at most once.
C18_LoadOnce == tr.loads <= 1

\* ---------------------------------------------------------------- C19
\* C19: a call on a missing path raises the NotFound error without
\* starting a load or creating a temporary file; a call that finds whisper
\* missing raises ImportError without creating a temporary file; a
\* non-zero ffmpeg exit gives RuntimeError; only a call that returns
\* yields a transcript.
C19_TranscriberErrors ==
    \A k \in Tasks :
        LET call == tr.calls[k]
        IN  /\ (call.pc # "idle" /\ ~call.media) =>
                  /\ call.pc = "raised"
                  /\ call.err = NotFound
                  /\ ~call.load_started
                  /\ ~call.created
            /\ call.err = NotFound => ~call.media
            /\ (call.pc # "idle" /\ call.media /\ ~tr.installed) =>
                  /\ call.pc = "raised"
                  /\ call.err = "ImportError"
                  /\ ~call.created
            /\ call.err \in {"ImportError", "LoadError"} => ~call.created
            /\ call.returncode = 1 =>
                  /\ call.pc = "raised"
                  /\ call.err = ProcessFailure
            /\ call.text # NoContent <=> call.pc = "returned"
            /\ call.pc = "returned" =>
                  call.media /\ tr.model /\ call.returncode = 0

\* ffmpeg exited with a non-zero code while extracting the audio.
C19_Witness ==
    \E k \in Tasks :
        /\ tr.calls[k].pc = "raised"
        /\ tr.calls[k].returncode = 1
        /\ tr.calls[k].err = ProcessFailure
        /\ tr.calls[k].text = NoContent

\* ---------------------------------------------------------------- C20
\* C20: every run starts with exactly one extract_info call, whatever the
\* workspace holds; when it returns the workspace directory of the returned
\* id exists, when it raises nothing on disk was created or changed.
C20_ResolveFirst ==
    [][/\ runs' # runs => /\ pc' = "s1_wait"
                          /\ trace' = <<"extract_info">>
                          /\ fs' = fs
                          /\ resultsDir' = resultsDir
       /\ runs' >= 1 => trace'[1] = "extract_info" /\ Count("extract_info")' = 1
       /\ (pc = "s1_wait" /\ pc' = "failed") =>
             fs' = fs /\ resultsDir' = resultsDir
       /\ (pc = "s1_wait" /\ pc' # "failed") =>
             /\ video_info' = url
             /\ resultsDir'
             /\ fs'[video_info'].dir
             /\ \A w \in Ids \ {url} : fs'[w] = fs[w]
       /\ pc \in {"s2", "s2_wait"} => ws.dir]_vars

\* extract_info raised in a run on a workspace that an earlier run completed.
C20_Witness ==
    /\ Raised("extract_info")
    /\ Len(trace) = 2
    /\ fs[url].summary # NoContent
    /\ fs = fs0

\* ---------------------------------------------------------------- C21
\* C21: when ffmpeg exits with a non-zero code the extraction raises a
\* RuntimeError that carries the captured stderr and returns no image;
\* images are returned only after an exit code of zero.
C21_ProcessFailure ==
    /\ (vs.returncode # -1 /\ vs.returncode # 0) =>
          /\ vs.out = ProcessFailure
          /\ vs.ret = <<>>
          /\ vs.cause.text = vs.stderr.bytes
    /\ vs.ret # <<>> => vs.returncode = 0

\* ---------------------------------------------------------------- C22
\* An image set as enhance_summarize reads it: the text f"{key}" of each
\* key and the bytes under it.
Rendered(d) == {[text |-> e.text, data |-> e.data] : e \in d}

\* The timestamps select_times returned, without repetitions.
Highlights == {screenshot_times[i] : i \in 1 .. Len(screenshot_times)}

\* C22: in a run that executed stages 5+6 and went on to stage 7,
\* screenshots/ holds exactly one file {timestamp}.jpg per distinct
\* timestamp selected, and the images passed to enhance_summarize have the
\* keys and contents of these files, which are the images a later run
\* loads from the directory.
C22_ImagesMatchFiles ==
    (SelectReturned /\ Count("enhance_summarize") = 1) =>
        /\ DOMAIN ws.shots = {JpgName(t) : t \in Highlights}
        /\ Cardinality(DOMAIN ws.shots) = Cardinality(Highlights)
        /\ Rendered(enhance_args.images) = Rendered(LoadImages(ws.shots))

\* ---------------------------------------------------------------- C23
AfterStage3 == {"s4", "s4_wait", "s5", "s5_wait", "s6", "s6_wait", "s7",
                "s7_wait"}
AfterStage4 == AfterStage3 \ {"s4", "s4_wait"}

\* C23: once stage 3 is over, executed or skipped, the transcript the
\* later stages get is the content of transcription.txt; once stage 4 is
\* over the raw summary they get is the content of summary-raw.md; a first
\* and a resumed run therefore pass the same two texts on.
C23_HandedEqualsFile ==
    /\ pc \in AfterStage3 => transcribe = ws.transcription
    /\ pc \in AfterStage4 => summary_content = ws.raw
    /\ Count("enhance_summarize") = 1 =>
          /\ enhance_args.transcribe = ws.transcription
          /\ enhance_args.summary = ws.raw

\* ---------------------------------------------------------------- C24
\* C24: stage 7 never changes summary-raw.md; it leaves summary.md as it
\* is while enhance_summarize is called and when the call raises, and
\* writes it only once the call has returned.
C24_Stage7Frame ==
    [][/\ pc \in {"s7", "s7_wait"} =>
             /\ fs'[video_info].raw = fs[video_info].raw
             /\ pc' # "done" => fs' = fs
       /\ (pc \in {"s7", "s7_wait"} /\ fs' # fs) =>
             /\ pc = "s7_wait"
             /\ trace' = Append(trace, "return")
             /\ \E g \in Texts : fs' = Put("summary", g)]_vars

\* enhance_summarize raised in a run that skipped stages 2 to 6 on a
\* workspace whose summary.md an earlier run wrote; the file is as it was.
C24_Witness ==
    /\ Raised("enhance_summarize")
    /\ status0[video_info] = "completed"
    /\ \A op \in Stages2to6 : Count(op) = 0
    /\ ws0.summary # NoContent
    /\ ws.summary = ws0.summary
    /\ ws.raw = ws0.raw

\* ---------------------------------------------------------------- C25
Running == ~Quiescent

\* C25: when every external call eventually returns or raises, every run
\* ends; it ends normally only with summary.md written and no call having
\* raised, and it ends with an error only by the raise of a call; a run
\* that is not waiting for an external call always moves on, so a run that
\* never ends waits for ever in one external call.
C25_Termination ==
    /\ WF_vars(Returns) => (Running ~> Quiescent)
    /\ (pc \notin WaitStates) ~> (Quiescent \/ pc \in WaitStates)
    /\ [](pc = "done" => /\ ws.summary # NoContent
                          /\ Count("raise") = 0
                          /\ Count("enhance_summarize") = 1)
    /\ [](pc = "failed" => trace[Len(trace)] = "raise")

\* A second run that ended normally after the first one had failed.
C25_Witness ==
    /\ pc = "done"
    /\ runs = 2
    /\ Count("raise") = 0
    /\ ws.summary # NoContent
    /\ ws0.summary = NoContent

\* ---------------------------------------------------------------- C26
\* C26: a step of a run whose metadata resolved to an id changes nothing
\* in the workspace of any other id, and what the run loads (transcript,
\* raw summary, images) it loads from its own workspace; so over any
\* sequence of runs the other workspaces stay as they were.
C26_Isolation ==
    [][/\ \A w \in Ids : w # video_info' => fs'[w] = fs[w]
       /\ (pc = "s3" /\ pc' = "s4") =>
             transcribe' = ReadText(fs[video_info].transcription)
       /\ (pc = "s4" /\ pc' = "s5") =>
             summary_content' = ReadText(fs[video_info].raw)
       /\ (pc = "s5" /\ pc' = "s7") =>
             images' = LoadImages(fs[video_info].shots)
       /\ (Resolved /\ video_info' = video_info) =>
             \A w \in Ids \ {video_info} : fs'[w] = fs0[w]]_vars

\* A run on one video ended after writing its artifacts, those of the
\* other video, completed earlier with another media file, as they were.
C26_Witness ==
    /\ pc = "done"
    /\ Resolved
    /\ ws # ws0
    /\ \E w \in Ids \ {video_info} :
          /\ status[w] = "completed"
          /\ fs[w].video # ws.video
          /\ fs[w].shots # EmptyShots
          /\ fs[w] = fs0[w]

\* ---------------------------------------------------------------- C27
\* The process at hand leaves the existence test of a stage: it starts
\* the stage's call exactly when the checkpoint is missing.
Decides(at, wait, missing) ==
    (pc = at /\ pc' # at) => (pc' = wait <=> missing)

\* C27: with two processes on one workspace, a process starts download,
\* transcribe, summarize or select_times exactly when the stage's
\* checkpoint is missing at its own test, whatever the other process is
\* doing, and a call that returns writes its checkpoint whether or not the
\* other process has written it meanwhile; so both processes can pass the
\* same test and execute the same stage.
C27_ExistenceOnly ==
    [][other' = other =>
          /\ Decides("s2", "s2_wait", ws.video = NoContent)
          /\ Decides("s3", "s3_wait", ws.transcription = NoContent)
          /\ Decides("s4", "s4_wait", ws.raw = NoContent)
          /\ Decides("s5", "s5_wait", ~ws.shotsDir)
          /\ (pc = "s2_wait" /\ pc' = "s3") =>
                execs'[video_info]["download"] = execs[video_info]["download"] + 1
          /\ (pc = "s3_wait" /\ pc' = "s4") =>
                fs'[video_info].transcription = WriteText(transcribe')
          /\ (pc = "s4_wait" /\ pc' = "s5") =>
                fs'[video_info].raw = WriteText(summary_content')]_vars

\* Two runs on a new workspace: both processes passed the test for
\* video.mp4 before either had written it, both downloaded, and the
\* second download has just been written over the first.
C27_Witness ==
    /\ runs = 2
    /\ pc = "s3"
    /\ other.pc \in AfterStage3 \cup {"s3", "s3_wait"}
    /\ video_info = other.video_info
    /\ Count("download") = 1
    /\ \E i \in 1 .. Len(other.trace) : other.trace[i] = "download"
    /\ execs[video_info]["download"] = 2
    /\ ws.video # NoContent

TypeOK ==
    /\ pc \in {"idle", "s1_wait", "s2", "s2_wait", "s3", "s3_wait", "s4",
               "s4_wait", "s5", "s5_wait", "s6", "s6_wait", "s7", "s7_wait",
               "done", "failed"}
    /\ runs \in 0 .. MaxRuns
    /\ screenshot_times \in HighlightSeqs
    /\ done_times \in 0 .. Len(screenshot_times)
====
